---------------------------- MODULE Spec2Model ----------------------------
(***************************************************************************)
(* Model of js/app.js (class VideoDownloader): the form controller, the    *)
(* repository_dispatch client, the run locator and the status poller.      *)
(*                                                                         *)
(* JavaScript runs each handler to its next await atomically, so there is  *)
(* one action per (event, continuation): the submit event, the arrival of  *)
(* each fetch response (or its rejection), and the firing of each timer.   *)
(*                                                                         *)
(* Text is modelled as a sequence of tokens: the empty string is <<>>,     *)
(* concatenation (template literals) is \o, and String.includes(m) is      *)
(* membership of the token m.  Numbers inside text are rendered with       *)
(* ToString.                                                               *)
(***************************************************************************)
EXTENDS Integers, Sequences, FiniteSets, TLC

(***************************************************************************)
(* Bounds of the model.                                                    *)
(***************************************************************************)
\* submit events handled by one load of the page
MaxSubmissions == 1

\* const maxAttempts = 30
maxAttempts == 30

\* JavaScript null (a run id of GitHub is a positive number; !runId is true
\* of null)
null == 0

(***************************************************************************)
(* Text helpers.                                                           *)
(***************************************************************************)
Range(s) == {s[i] : i \in 1..Len(s)}

\* String.prototype.includes on token text
Includes(text, marker) == marker \in Range(text)

\* a JavaScript string is falsy exactly when it is empty
Falsy(text) == text = <<>>

(***************************************************************************)
(* isValidUrl: the two anchored regular expressions                        *)
(*   /^(https?:\/\/)?(www\.)?(youtube\.com|youtu\.be)\/.+/                 *)
(*   /^(https?:\/\/)?(www\.)?tiktok\.com\/.+/                              *)
(* matched token by token: optional scheme, optional "www.", the host, a   *)
(* "/", and at least one more character.                                   *)
(***************************************************************************)
Schemes == {"https://", "http://"}

AfterScheme(url) == IF Len(url) > 0 /\ url[1] \in Schemes THEN Tail(url) ELSE url

AfterWww(url) == IF Len(url) > 0 /\ url[1] = "www." THEN Tail(url) ELSE url

HostMatch(url, hosts) ==
    LET rest == AfterWww(AfterScheme(url))
    IN  /\ Len(rest) >= 3
        /\ rest[1] \in hosts
        /\ rest[2] = "/"

youtubeRegex(url) == HostMatch(url, {"youtube.com", "youtu.be"})

tiktokRegex(url) == HostMatch(url, {"tiktok.com"})

isValidUrl(url) == youtubeRegex(url) \/ tiktokRegex(url)

\* getWorkflowType
getWorkflowType(url) ==
    IF Includes(url, "youtube.com") \/ Includes(url, "youtu.be")
    THEN "download-youtube"
    ELSE IF Includes(url, "tiktok.com")
         THEN "download-tiktok"
         ELSE "download-video"

(***************************************************************************)
(* validateForm: the validation message it shows, <<>> when it returns     *)
(* true.                                                                   *)
(***************************************************************************)
RequiredMissing(data) ==
    \/ Falsy(data.videoUrl)
    \/ Falsy(data.githubToken)
    \/ Falsy(data.repoOwner)
    \/ Falsy(data.repoName)

\* a validateForm without the check of the URL
validateFormNoUrlCheck(data) ==
    IF RequiredMissing(data)
    THEN <<"Please fill in all required fields">>
    ELSE <<>>

\* <<>> when the form is valid, else the text of the validation error
validateForm(data) ==
    IF RequiredMissing(data)
    THEN <<"Please fill in all required fields">>
    ELSE IF ~isValidUrl(data.videoUrl)
         THEN <<"Please enter a valid YouTube or TikTok URL">>
         ELSE <<>>


(***************************************************************************)
(* Inputs: what the user can type into the form, and what the GitHub API   *)
(* can answer.                                                             *)
(***************************************************************************)
YoutubeUrl == <<"https://", "www.", "youtube.com", "/", "watch?v=abc">>

TiktokUrl == <<"tiktok.com", "/", "@user/video/1">>

OtherUrl == <<"https://", "vimeo.com", "/", "1">>

Tokens == {<<>>, <<"ghp_secret">>}

Owners == {<<>>, <<"alice">>}

Repos == {<<>>, <<"videos">>}

\* every combination of a present or missing field with a supported or an
\* unsupported URL, and a TikTok URL without the credential
FormInputs ==
    [videoUrl : {<<>>, YoutubeUrl, OtherUrl}, githubToken : Tokens,
     downloadType : {<<"video">>}, repoOwner : Owners, repoName : Repos]
    \cup { [videoUrl |-> TiktokUrl, githubToken |-> <<>>,
            downloadType |-> <<"audio">>, repoOwner |-> <<"alice">>,
            repoName |-> <<"videos">>] }

\* the body of an HTTP response, as response.json() sees it:
\*   kind "invalid": json() rejects;  kind "null": the JSON value null;
\*   kind "object": a JSON object, with the members the model reads
NoBody == [kind |-> "invalid", hasMessage |-> FALSE, message |-> <<>>]

NullBody == [kind |-> "null", hasMessage |-> FALSE, message |-> <<>>]

EmptyObject == [kind |-> "object", hasMessage |-> FALSE, message |-> <<>>]

MessageBody(m) == [kind |-> "object", hasMessage |-> TRUE, message |-> m]

DispatchResponses ==
    { [status |-> 204, statusText |-> <<"No Content">>, body |-> NoBody],
      [status |-> 422, statusText |-> <<"Unprocessable Entity">>,
       body |-> MessageBody(<<"Bad request">>)],
      [status |-> 404, statusText |-> <<>>, body |-> MessageBody(<<"Not Found">>)],
      [status |-> 401, statusText |-> <<"Unauthorized">>, body |-> MessageBody(<<>>)],
      [status |-> 500, statusText |-> <<"Internal Server Error">>, body |-> NoBody],
      [status |-> 500, statusText |-> <<>>, body |-> EmptyObject],
      [status |-> 502, statusText |-> <<"Bad Gateway">>, body |-> NullBody] }

\* a run that was in the repository before this page dispatched anything
PriorRun == 7

\* the run the repository starts for the dispatch of submission s
NewRun(s) == 100 + s

\* GET .../actions/runs: hasRuns says whether the body has a workflow_runs
\* member; runs are the ids of its elements, most recent first
RunsResponses(s) ==
    { [status |-> 200, kind |-> "object", hasRuns |-> TRUE, runs |-> r] :
         r \in {<<>>, <<PriorRun>>, <<NewRun(s), PriorRun>>} }
    \cup { [status |-> 200, kind |-> "object", hasRuns |-> FALSE, runs |-> <<>>],
           [status |-> 200, kind |-> "invalid", hasRuns |-> FALSE, runs |-> <<>>],
           [status |-> 403, kind |-> "object", hasRuns |-> FALSE, runs |-> <<>>] }

\* GET .../actions/runs/{id}: the run's lifecycle status and conclusion
RunStates ==
    { [status |-> "queued", conclusion |-> "null"],
      [status |-> "in_progress", conclusion |-> "null"],
      [status |-> "completed", conclusion |-> "success"],
      [status |-> "completed", conclusion |-> "failure"],
      [status |-> "completed", conclusion |-> "cancelled"] }

\* what poll holds in status when checkWorkflowStatus threw
NoRun == [status |-> "none", conclusion |-> "none"]

StatusResponses ==
    { [status |-> 200, kind |-> "object", run |-> r] : r \in RunStates }
    \cup { [status |-> 200, kind |-> "invalid", run |-> NoRun],
           [status |-> 500, kind |-> "object", run |-> NoRun] }

\* the message of the TypeError fetch rejects with when the network fails
NetworkError == <<"Failed to fetch">>

\* response.ok
ResponseOk(response) == response.status \in 200..299



(***************************************************************************)
(* State.                                                                  *)
(***************************************************************************)
VARIABLES
    localStorage,   \* window.localStorage: a function from its keys to text
    form,           \* the values of the form's input elements
    disabled,       \* this.downloadBtn.disabled
    statusMessage,  \* this.statusMessage: textContent and the type in className
    workflowLink,   \* the href shown by showWorkflowLink, <<>> before any
    hs,             \* hs[s]: the call handleSubmit(e) of the s-th submit event
    poll,           \* poll[s]: the closure of pollWorkflowStatus for that call
    requests        \* requests[s]: the fetches issued on behalf of that call

vars ==
    <<localStorage, form, disabled, statusMessage, workflowLink, hs, poll, requests>>

\* the submit events this load of the page has handled
Submissions == 1..Len(hs)

Status(message, type) == [textContent |-> message, className |-> type]

\* localStorage.getItem: a missing key reads as null, falsy like ""
getItem(store, key) == IF key \in DOMAIN store THEN store[key] ELSE <<>>

\* localStorage.setItem
setItem(store, key, value) ==
    [k \in DOMAIN store \cup {key} |-> IF k = key THEN value ELSE store[k]]

\* a saveRepoInfo that forgets the repository name
saveRepoInfoOwnerOnly(store, owner, repo) == setItem(store, "repoOwner", owner)

\* saveRepoInfo
saveRepoInfo(store, owner, repo) ==
    setItem(setItem(store, "repoOwner", owner), "repoName", repo)

\* loadSavedRepoInfo, on the input values f
loadSavedRepoInfo(store, f) ==
    LET savedOwner == getItem(store, "repoOwner")
        savedRepo == getItem(store, "repoName")
    IN  [f EXCEPT !.repoOwner = IF ~Falsy(savedOwner) THEN savedOwner ELSE @,
                  !.repoName = IF ~Falsy(savedRepo) THEN savedRepo ELSE @]

\* the input values of a freshly loaded page
BlankForm ==
    [videoUrl |-> <<>>, githubToken |-> <<>>, downloadType |-> <<"video">>,
     repoOwner |-> <<>>, repoName |-> <<>>]

EmptyStore == [k \in {} |-> <<>>]

\* a setLoading that never enables the button again
setLoadingStuck(loading) == TRUE

\* setLoading(loading): the value it leaves in downloadBtn.disabled
setLoading(loading) == loading

\* `${runId}` in a template literal
RenderId(runId) == IF runId = null THEN "null" ELSE ToString(runId)

\* showWorkflowLink: the href of the link
WorkflowUrl(owner, repo, runId) ==
    <<"https://github.com/">> \o owner \o <<"/">> \o repo
        \o <<"/actions/runs/", RenderId(runId)>>

\* handleSubmit before it has done anything
NewCall(fd) ==
    [pc |-> "start", formData |-> fd, workflowType |-> "none", runId |-> null,
     error |-> <<>>, shown |-> <<>>]

\* no closure of pollWorkflowStatus
NoPoll ==
    [pc |-> "none", runId |-> null, attempts |-> 0, outcome |-> "none",
     seen |-> <<>>, log |-> <<>>, refreshes |-> 0]

\* the fetches issued so far (how many of each kind) and the replies the
\* first two got, each a sequence of at most one response
NoRequests ==
    [dispatch |-> 0, runs |-> 0, status |-> 0, dispatchReply |-> <<>>,
     runsReply |-> <<>>]

\* a fetch that rejected, seen as a reply: the network gave no response
NoDispatchReply == [status |-> 0, statusText |-> <<>>, body |-> NoBody]

NoRunsReply == [status |-> 0, kind |-> "invalid", hasRuns |-> FALSE, runs |-> <<>>]

\* new VideoDownloader() on DOMContentLoaded, given what localStorage holds
PageLoaded(store) ==
    /\ localStorage = store
    /\ form = loadSavedRepoInfo(store, BlankForm)
    /\ disabled = FALSE
    /\ statusMessage = Status(<<>>, "none")
    /\ workflowLink = <<>>
    /\ hs = <<>>
    /\ poll = <<>>
    /\ requests = <<>>

\* what an earlier visit of the page may have left in localStorage
InitialStores == {EmptyStore, saveRepoInfo(EmptyStore, <<"bob">>, <<"clips">>)}

Init == \E store \in InitialStores : PageLoaded(store)

\* the user reloads the page: its timers, fetches and closures are gone,
\* localStorage stays, and the constructor runs again
Reload ==
    /\ localStorage' = localStorage
    /\ form' = loadSavedRepoInfo(localStorage, BlankForm)
    /\ disabled' = FALSE
    /\ statusMessage' = Status(<<>>, "none")
    /\ workflowLink' = <<>>
    /\ hs' = <<>>
    /\ poll' = <<>>
    /\ requests' = <<>>

(***************************************************************************)
(* handleSubmit, triggerWorkflow and getLatestWorkflowRun.                 *)
(***************************************************************************)

\* a handleSubmit that also remembers the credential for the next visit
handleSubmitSavingToken(fd) ==
    LET invalid == validateForm(fd)
        triggering == Status(<<"Triggering download workflow...">>, "info")
    IN  /\ ~disabled
        /\ form' = fd
        /\ poll' = Append(poll, NoPoll)
        /\ IF ~Falsy(invalid)
           THEN /\ statusMessage' = Status(invalid, "error")
                /\ hs' = Append(hs, [NewCall(fd) EXCEPT
                                        !.pc = "rejected",
                                        !.shown = <<Status(invalid, "error")>>])
                /\ requests' = Append(requests, NoRequests)
                /\ UNCHANGED <<localStorage, disabled, workflowLink>>
           ELSE /\ localStorage' =
                       setItem(saveRepoInfo(localStorage, fd.repoOwner, fd.repoName),
                               "githubToken", fd.githubToken)
                /\ disabled' = setLoading(TRUE)
                /\ statusMessage' = triggering
                /\ hs' = Append(hs, [NewCall(fd) EXCEPT
                                        !.pc = "dispatch",
                                        !.workflowType = getWorkflowType(fd.videoUrl),
                                        !.shown = <<triggering>>])
                /\ requests' = Append(requests, [NoRequests EXCEPT !.dispatch = 1])
                /\ UNCHANGED workflowLink

\* the submit event: handleSubmit up to its first await, the fetch of
\* triggerWorkflow.  A disabled submit button submits nothing.
handleSubmit(fd) ==
    LET invalid == validateForm(fd)
        triggering == Status(<<"Triggering download workflow...">>, "info")
    IN  /\ ~disabled
        /\ form' = fd
        /\ poll' = Append(poll, NoPoll)
        /\ IF ~Falsy(invalid)
           THEN /\ statusMessage' = Status(invalid, "error")
                /\ hs' = Append(hs, [NewCall(fd) EXCEPT
                                        !.pc = "rejected",
                                        !.shown = <<Status(invalid, "error")>>])
                /\ requests' = Append(requests, NoRequests)
                /\ UNCHANGED <<localStorage, disabled, workflowLink>>
           ELSE /\ localStorage' = saveRepoInfo(localStorage, fd.repoOwner, fd.repoName)
                /\ disabled' = setLoading(TRUE)
                /\ statusMessage' = triggering
                /\ hs' = Append(hs, [NewCall(fd) EXCEPT
                                        !.pc = "dispatch",
                                        !.workflowType = getWorkflowType(fd.videoUrl),
                                        !.shown = <<triggering>>])
                /\ requests' = Append(requests, [NoRequests EXCEPT !.dispatch = 1])
                /\ UNCHANGED workflowLink

\* a catch block that starts triggerWorkflow again
catchErrorRetry(s, message, sent) ==
    /\ statusMessage' = Status(<<"Error: ">> \o message, "error")
    /\ disabled' = disabled
    /\ hs' = [hs EXCEPT ![s].pc = "dispatch",
                        ![s].error = message,
                        ![s].shown = Append(@, Status(<<"Error: ">> \o message, "error"))]
    /\ requests' = [sent EXCEPT ![s].dispatch = @ + 1]
    /\ UNCHANGED <<localStorage, form, workflowLink, poll>>

\* the catch and finally blocks of handleSubmit, given error.message; sent
\* is the record of the fetches, which they leave alone
catchError(s, message, sent) ==
    /\ statusMessage' = Status(<<"Error: ">> \o message, "error")
    /\ disabled' = setLoading(FALSE)
    /\ hs' = [hs EXCEPT ![s].pc = "failed",
                        ![s].error = message,
                        ![s].shown = Append(@, Status(<<"Error: ">> \o message, "error"))]
    /\ requests' = sent
    /\ UNCHANGED <<localStorage, form, workflowLink, poll>>

\* an error message that leaves the server's message out
dispatchErrorMessageStatusOnly(response) ==
    <<"HTTP ", ToString(response.status), ": ">> \o response.statusText

\* triggerWorkflow, if (!response.ok): the message of the error it throws.
\* response.json().catch(() => ({})) turns an unparseable body into {}; a body
\* that is the JSON value null makes errorData.message throw a TypeError.
dispatchErrorMessage(response) ==
    IF response.body.kind = "null"
    THEN <<"Cannot read properties of null (reading 'message')">>
    ELSE LET errorData == IF response.body.kind = "invalid"
                          THEN EmptyObject
                          ELSE response.body
         IN  IF errorData.hasMessage /\ ~Falsy(errorData.message)
             THEN errorData.message
             ELSE <<"HTTP ", ToString(response.status), ": ">> \o response.statusText

\* a check that lets the 4xx answers through
dispatchFailedOnServerError(response) == response.status >= 500

\* triggerWorkflow: if (!response.ok)
dispatchFailed(response) == ~ResponseOk(response)

\* the response of POST .../dispatches arrives
DispatchResponse(s, response) ==
    /\ s \in Submissions
    /\ hs[s].pc = "dispatch"
    /\ LET sent == [requests EXCEPT ![s].dispatchReply = <<response>>]
       IN  IF dispatchFailed(response)
           THEN catchError(s, dispatchErrorMessage(response), sent)
           ELSE \* getLatestWorkflowRun: setTimeout(resolve, 2000)
                /\ hs' = [hs EXCEPT ![s].pc = "delay"]
                /\ requests' = sent
                /\ UNCHANGED <<localStorage, form, disabled, statusMessage,
                               workflowLink, poll>>

\* the fetch of POST .../dispatches rejects (network failure)
DispatchRejected(s) ==
    /\ s \in Submissions
    /\ hs[s].pc = "dispatch"
    /\ catchError(s, NetworkError,
                  [requests EXCEPT ![s].dispatchReply = <<NoDispatchReply>>])

\* the 2000 ms timer of getLatestWorkflowRun fires: GET .../actions/runs
DelayElapsed(s) ==
    /\ s \in Submissions
    /\ hs[s].pc = "delay"
    /\ hs' = [hs EXCEPT ![s].pc = "runs"]
    /\ requests' = [requests EXCEPT ![s].runs = @ + 1]
    /\ UNCHANGED <<localStorage, form, disabled, statusMessage, workflowLink, poll>>

\* a getLatestWorkflowRun that takes the last listed run, not the first
getLatestWorkflowRunLastEntry(response) ==
    IF ResponseOk(response)
    THEN IF response.kind = "invalid"
         THEN [threw |-> TRUE, runId |-> null,
               message |-> <<"Unexpected end of JSON input">>]
         ELSE IF ~response.hasRuns
              THEN [threw |-> TRUE, runId |-> null,
                    message |-> <<"Cannot read properties of undefined (reading '0')">>]
              ELSE [threw |-> FALSE,
                    runId |-> IF Len(response.runs) > 0
                              THEN response.runs[Len(response.runs)]
                              ELSE null,
                    message |-> <<>>]
    ELSE [threw |-> FALSE, runId |-> null, message |-> <<>>]

\* getLatestWorkflowRun after its fetch: the id it returns, or the error
\* it throws (json() of an unparseable body, workflow_runs missing)
getLatestWorkflowRun(response) ==
    IF ResponseOk(response)
    THEN IF response.kind = "invalid"
         THEN [threw |-> TRUE, runId |-> null,
               message |-> <<"Unexpected end of JSON input">>]
         ELSE IF ~response.hasRuns
              THEN [threw |-> TRUE, runId |-> null,
                    message |-> <<"Cannot read properties of undefined (reading '0')">>]
              ELSE [threw |-> FALSE,
                    runId |-> IF Len(response.runs) > 0 THEN response.runs[1] ELSE null,
                    message |-> <<>>]
    ELSE [threw |-> FALSE, runId |-> null, message |-> <<>>]

\* triggerWorkflow: return { success: true, runId }
triggerResult(runId) == [success |-> TRUE, runId |-> runId, error |-> <<"undefined">>]

\* pollWorkflowStatus(formData, runId) up to the first await of poll(): the
\* closure it leaves behind
pollWorkflowStatus(runId) ==
    IF runId = null
    THEN NoPoll
    ELSE [NoPoll EXCEPT !.pc = "fetch", !.runId = runId, !.attempts = 1]

\* the response of GET .../actions/runs arrives: the rest of triggerWorkflow
\* and of handleSubmit
RunsResponse(s, response) ==
    /\ s \in Submissions
    /\ hs[s].pc = "runs"
    /\ LET latest == getLatestWorkflowRun(response)
           result == triggerResult(latest.runId)
           fd == hs[s].formData
           sent == [requests EXCEPT ![s].runsReply = <<response>>]
           triggered == Status(<<"Workflow triggered successfully! Run ID: ",
                                 RenderId(result.runId)>>, "success")
       IN  IF latest.threw
           THEN catchError(s, latest.message, sent)
           ELSE IF result.success
                THEN /\ statusMessage' = triggered
                     /\ workflowLink' = WorkflowUrl(fd.repoOwner, fd.repoName, result.runId)
                     /\ poll' = [poll EXCEPT ![s] = pollWorkflowStatus(result.runId)]
                     /\ requests' = [sent EXCEPT
                            ![s].status = IF poll'[s].pc = "fetch" THEN @ + 1 ELSE @]
                     /\ disabled' = setLoading(FALSE)
                     /\ hs' = [hs EXCEPT ![s].pc = "done",
                                         ![s].runId = result.runId,
                                         ![s].shown = Append(@, triggered)]
                     /\ UNCHANGED <<localStorage, form>>
                ELSE catchError(s, result.error, sent)

\* the fetch of GET .../actions/runs rejects (network failure)
RunsRejected(s) ==
    /\ s \in Submissions
    /\ hs[s].pc = "runs"
    /\ catchError(s, NetworkError, [requests EXCEPT ![s].runsReply = <<NoRunsReply>>])

(***************************************************************************)
(* pollWorkflowStatus: the closure poll and checkWorkflowStatus.           *)
(***************************************************************************)

\* checkWorkflowStatus after its fetch: the run it returns, or threw
checkWorkflowStatus(response) ==
    IF ResponseOk(response)
    THEN [threw |-> response.kind = "invalid", run |-> response.run]
    ELSE [threw |-> TRUE, run |-> NoRun]

\* the chain with attempts <= maxAttempts in its progress branch
pollBranchOffByOne(run, attempts) ==
    IF run.conclusion = "success"
    THEN "success"
    ELSE IF run.conclusion = "failure"
         THEN "failure"
         ELSE IF run.status = "in_progress" /\ attempts <= maxAttempts
              THEN "progress"
              ELSE IF attempts >= maxAttempts
                   THEN "timeout"
                   ELSE "none"

\* the chain with the test of the budget first
pollBranchBudgetFirst(run, attempts) ==
    IF attempts >= maxAttempts
    THEN "timeout"
    ELSE IF run.conclusion = "success"
         THEN "success"
         ELSE IF run.conclusion = "failure"
              THEN "failure"
              ELSE IF run.status = "in_progress"
                   THEN "progress"
                   ELSE "none"

\* the if / else-if chain of poll, on the fetched run and the attempts made
pollBranch(run, attempts) ==
    IF run.conclusion = "success"
    THEN "success"
    ELSE IF run.conclusion = "failure"
         THEN "failure"
         ELSE IF run.status = "in_progress" /\ attempts < maxAttempts
              THEN "progress"
              ELSE IF attempts >= maxAttempts
                   THEN "timeout"
                   ELSE "none"

\* the status text of each branch
Completed == Status(<<"Download completed successfully!">>, "success")

Failed == Status(<<"Download failed. Check the workflow logs for details.">>, "error")

\* a progress text that counts the attempts from zero
InProgressFromZero(attempts) ==
    Status(<<"Download in progress... (", ToString(attempts - 1), "/",
             ToString(maxAttempts), ")">>, "info")

InProgress(attempts) ==
    Status(<<"Download in progress... (", ToString(attempts), "/",
             ToString(maxAttempts), ")">>, "info")

TimedOut == Status(<<"Polling timeout. Please check workflow manually.">>, "warning")

\* the catch block of poll: console.error, and nothing else
pollCatch(s) ==
    /\ poll' = [poll EXCEPT ![s].pc = "ended",
                            ![s].outcome = "error",
                            ![s].seen = Append(@, NoRun)]
    /\ UNCHANGED <<localStorage, form, disabled, statusMessage, workflowLink, hs,
                   requests>>

\* a poll that reports only for the submission made last
pollTryNewestOnly(s, run) ==
    LET p == poll[s]
        branch == pollBranch(run, p.attempts)
        shows == CASE branch = "success" -> <<Completed>>
                   [] branch = "failure" -> <<Failed>>
                   [] branch = "progress" -> <<InProgress(p.attempts)>>
                   [] branch = "timeout" -> <<TimedOut>>
                   [] OTHER -> <<>>
    IN  /\ statusMessage' = IF shows = <<>> \/ s # Len(hs) THEN statusMessage ELSE shows[1]
        /\ poll' = [poll EXCEPT
              ![s].pc = IF branch = "progress" THEN "timer" ELSE "ended",
              ![s].outcome = IF branch = "progress" THEN "none" ELSE branch,
              ![s].seen = Append(@, run),
              ![s].log = @ \o shows,
              ![s].refreshes = IF branch = "success" THEN @ + 1 ELSE @]
        /\ UNCHANGED <<localStorage, form, disabled, workflowLink, hs, requests>>

\* the try block of poll after the await, on the run that was fetched
pollTry(s, run) ==
    LET p == poll[s]
        branch == pollBranch(run, p.attempts)
        shows == CASE branch = "success" -> <<Completed>>
                   [] branch = "failure" -> <<Failed>>
                   [] branch = "progress" -> <<InProgress(p.attempts)>>
                   [] branch = "timeout" -> <<TimedOut>>
                   [] OTHER -> <<>>
    IN  /\ statusMessage' = IF shows = <<>> THEN statusMessage ELSE shows[1]
        /\ poll' = [poll EXCEPT
              \* setTimeout(poll, 10000) in the progress branch only
              ![s].pc = IF branch = "progress" THEN "timer" ELSE "ended",
              ![s].outcome = IF branch = "progress" THEN "none" ELSE branch,
              ![s].seen = Append(@, run),
              ![s].log = @ \o shows,
              \* this.loadDownloads()
              ![s].refreshes = IF branch = "success" THEN @ + 1 ELSE @]
        /\ UNCHANGED <<localStorage, form, disabled, workflowLink, hs, requests>>

\* the response of GET .../actions/runs/{id} arrives
StatusResponse(s, response) ==
    /\ s \in Submissions
    /\ poll[s].pc = "fetch"
    /\ LET status == checkWorkflowStatus(response)
       IN  IF status.threw
           THEN pollCatch(s)
           ELSE pollTry(s, status.run)

\* the fetch of GET .../actions/runs/{id} rejects (network failure)
StatusRejected(s) ==
    /\ s \in Submissions
    /\ poll[s].pc = "fetch"
    /\ pollCatch(s)

\* a timer callback that runs poll() twice: two status fetches per tick
PollTimerTwice(s) ==
    /\ s \in Submissions
    /\ poll[s].pc = "timer"
    /\ poll' = [poll EXCEPT ![s].pc = "fetch", ![s].attempts = @ + 2]
    /\ requests' = [requests EXCEPT ![s].status = @ + 2]
    /\ UNCHANGED <<localStorage, form, disabled, statusMessage, workflowLink, hs>>

\* the 10000 ms timer set by poll fires: poll() up to its await
PollTimer(s) ==
    /\ s \in Submissions
    /\ poll[s].pc = "timer"
    /\ poll' = [poll EXCEPT ![s].pc = "fetch", ![s].attempts = @ + 1]
    /\ requests' = [requests EXCEPT ![s].status = @ + 1]
    /\ UNCHANGED <<localStorage, form, disabled, statusMessage, workflowLink, hs>>

(***************************************************************************)
(* The page.                                                               *)
(***************************************************************************)
Submit ==
    /\ Len(hs) < MaxSubmissions
    /\ \E fd \in FormInputs : handleSubmit(fd)

\* the indices a submit event of one page load can get
Slots == 1..MaxSubmissions

Next ==
    \/ Reload
    \/ Submit
    \/ \E s \in Slots : \E response \in DispatchResponses : DispatchResponse(s, response)
    \/ \E s \in Slots : DispatchRejected(s)
    \/ \E s \in Slots : DelayElapsed(s)
    \/ \E s \in Slots : \E response \in RunsResponses(s) : RunsResponse(s, response)
    \/ \E s \in Slots : RunsRejected(s)
    \/ \E s \in Slots : \E response \in StatusResponses : StatusResponse(s, response)
    \/ \E s \in Slots : StatusRejected(s)
    \/ \E s \in Slots : PollTimer(s)

\* a fetch in flight or a timer pending of submission s completes
Completes(s) ==
    \/ \E response \in DispatchResponses : DispatchResponse(s, response)
    \/ DispatchRejected(s)
    \/ DelayElapsed(s)
    \/ \E response \in RunsResponses(s) : RunsResponse(s, response)
    \/ RunsRejected(s)
    \/ \E response \in StatusResponses : StatusResponse(s, response)
    \/ StatusRejected(s)
    \/ PollTimer(s)

Spec == Init /\ [][Next]_vars

\* the page is never left waiting forever while a fetch can settle or a
\* timer can fire
Fairness == WF_vars(\E s \in Slots : Completes(s))

FairSpec == Spec /\ Fairness


(***************************************************************************)
(* Properties of the status poller.                                        *)
(***************************************************************************)
Last(seq) == seq[Len(seq)]

Running == [status |-> "in_progress", conclusion |-> "null"]

Succeeded == [status |-> "completed", conclusion |-> "success"]

\* every fetch of the loop so far returned a run that was in progress
AllRunning(seen) == \A i \in 1..Len(seen) : seen[i] = Running

\* the progress text the page shows for attempt i of 30
ProgressText(i) ==
    Status(<<"Download in progress... (", ToString(i), "/", "30", ")">>, "info")

SuccessText == Status(<<"Download completed successfully!">>, "success")

FailureText ==
    Status(<<"Download failed. Check the workflow logs for details.">>, "error")

TimeoutText ==
    Status(<<"Polling timeout. Please check workflow manually.">>, "warning")

\* a tick of the loop is pending: a timer is set or a status fetch is in flight
TickPending(s) == poll[s].pc \in {"timer", "fetch"}

\* C1: a status fetch that fails before the 30 attempts are used up never
\* ends the poll loop: after it, a further tick is pending.
C1_FailedFetchKeepsPolling ==
    \A s \in Submissions :
        (/\ Len(poll[s].seen) > 0
         /\ Last(poll[s].seen) = NoRun
         /\ poll[s].attempts < 30)
        => TickPending(s)

\* C2: with every status fetch successful, a poll loop that has no tick
\* pending any more has reported success, failure or timeout (it never stops
\* silently), and that report is the last thing it showed.
C2_LoopEndsWithReport ==
    \A s \in Submissions :
        (/\ poll[s].pc = "ended"
         /\ NoRun \notin Range(poll[s].seen))
        => /\ poll[s].outcome \in {"success", "failure", "timeout"}
           /\ Len(poll[s].log) > 0
           /\ Last(poll[s].log) \in {SuccessText, FailureText, TimeoutText}

\* C3: no poll loop issues more than 30 status fetches; while every fetched
\* run is in progress, tick i < 30 reports progress i and leaves a tick
\* pending, and tick 30 reports the timeout after exactly 30 fetches and
\* leaves no tick pending.
C3_TimeoutAfterThirtyFetches ==
    \A s \in Submissions :
        /\ requests[s].status <= 30
        /\ AllRunning(poll[s].seen) =>
              LET n == Len(poll[s].seen)
              IN  /\ n <= 30
                  /\ requests[s].status \in {n, n + 1}
                  /\ \A i \in 1..n : i < 30 => poll[s].log[i] = ProgressText(i)
                  /\ (n < 30 /\ poll[s].pc # "none") =>
                        /\ Len(poll[s].log) = n
                        /\ TickPending(s)
                  /\ n = 30 =>
                        /\ poll[s].log = [i \in 1..30 |->
                               IF i < 30 THEN ProgressText(i) ELSE TimeoutText]
                        /\ poll[s].outcome = "timeout"
                        /\ ~TickPending(s)
                        /\ requests[s].status = 30

\* C3 happens: a loop saw 30 runs in progress and reported the timeout
C3_Witness ==
    \E s \in Submissions :
        /\ Len(poll[s].seen) = 30
        /\ AllRunning(poll[s].seen)
        /\ poll[s].outcome = "timeout"
        /\ statusMessage = TimeoutText

\* C4: when the fetched runs are n < 30 times in progress and then concluded
\* with success, the loop has shown progress 1..n in order and then success,
\* has called loadDownloads once, and has fetched n + 1 times and has no tick
\* pending, so it fetches and shows nothing more.
C4_ProgressThenSuccess ==
    \A s \in Submissions :
        LET seen == poll[s].seen
            n == Len(seen) - 1
        IN  (/\ Len(seen) >= 1
             /\ n < 30
             /\ Last(seen) = Succeeded
             /\ AllRunning(SubSeq(seen, 1, n)))
            => /\ poll[s].log = [i \in 1..(n + 1) |->
                      IF i <= n THEN ProgressText(i) ELSE SuccessText]
               /\ poll[s].refreshes = 1
               /\ requests[s].status = n + 1
               /\ poll[s].pc = "ended"
               /\ poll[s].outcome = "success"

\* C4 happens: 29 runs in progress, then success on the last allowed tick
C4_Witness ==
    \E s \in Submissions :
        /\ Len(poll[s].seen) = 30
        /\ Last(poll[s].seen) = Succeeded
        /\ AllRunning(SubSeq(poll[s].seen, 1, 29))
        /\ poll[s].refreshes = 1


(***************************************************************************)
(* Properties of the form controller and the dispatch client.              *)
(***************************************************************************)

\* handleSubmit(s) is between setLoading(true) and its finally block
InFlight(s) == hs[s].pc \in {"dispatch", "delay", "runs"}

\* the dispatch of submission s was answered with a non-2xx response, or its
\* fetch failed
DispatchFailedFor(s) ==
    /\ Len(requests[s].dispatchReply) = 1
    /\ requests[s].dispatchReply[1].status \notin 200..299

\* the dispatch of submission s was answered with a 2xx response
DispatchSucceededFor(s) ==
    /\ Len(requests[s].dispatchReply) = 1
    /\ requests[s].dispatchReply[1].status \in 200..299

\* C5: the dispatch request is issued at most once for each submission.
C5_DispatchAtMostOnce ==
    \A s \in Submissions : requests[s].dispatch <= 1

\* C5 happens: a submission whose dispatch failed is over, with one dispatch
C5_Witness ==
    \E s \in Submissions :
        /\ DispatchFailedFor(s)
        /\ hs[s].pc = "failed"
        /\ requests[s].dispatch = 1

\* C6: a submission with an empty required field, or with a URL that matches
\* neither host pattern, issues no fetch of any kind, starts no poll loop,
\* and shows one validation error and nothing else.
C6_InvalidFormNoNetwork ==
    \A s \in Submissions :
        LET data == hs[s].formData
        IN  (\/ data.videoUrl = <<>>
             \/ data.githubToken = <<>>
             \/ data.repoOwner = <<>>
             \/ data.repoName = <<>>
             \/ ~(youtubeRegex(data.videoUrl) \/ tiktokRegex(data.videoUrl)))
            => /\ requests[s].dispatch = 0
               /\ requests[s].runs = 0
               /\ requests[s].status = 0
               /\ poll[s].pc = "none"
               /\ Len(hs[s].shown) = 1
               /\ hs[s].shown[1] \in
                     {Status(<<"Please fill in all required fields">>, "error"),
                      Status(<<"Please enter a valid YouTube or TikTok URL">>, "error")}

\* C6 happens: all fields are filled in and the URL is of an unsupported host
C6_Witness ==
    \E s \in Submissions :
        /\ hs[s].formData.videoUrl = OtherUrl
        /\ hs[s].formData.githubToken # <<>>
        /\ hs[s].formData.repoOwner # <<>>
        /\ hs[s].formData.repoName # <<>>
        /\ statusMessage = Status(<<"Please enter a valid YouTube or TikTok URL">>, "error")

\* C7: when the dispatch fails, no run listing and no status fetch is made,
\* no poll loop starts, and the last thing handleSubmit shows is an error.
C7_DispatchFailureAborts ==
    \A s \in Submissions :
        DispatchFailedFor(s)
        => /\ requests[s].runs = 0
           /\ requests[s].status = 0
           /\ poll[s].pc = "none"
           /\ hs[s].pc = "failed"
           /\ Last(hs[s].shown).className = "error"

\* C7 happens: the dispatch was answered 422 and the page shows the error
C7_Witness ==
    \E s \in Submissions :
        /\ DispatchFailedFor(s)
        /\ requests[s].dispatchReply[1].status = 422
        /\ statusMessage.className = "error"

\* the run listing of submission s was answered, and resolved no run id: a
\* non-2xx response, or a 2xx response with an empty workflow_runs list
LocatorMiss(s) ==
    /\ Len(requests[s].runsReply) = 1
    /\ LET reply == requests[s].runsReply[1]
       IN  \/ reply.status \in 300..599
           \/ /\ reply.status \in 200..299
              /\ reply.kind = "object"
              /\ reply.hasRuns
              /\ reply.runs = <<>>

\* C8: when the dispatch succeeds and no run id is resolved, polling is
\* skipped and the submission is reported as an error, not as a success.
C8_LocatorMissIsError ==
    \A s \in Submissions :
        (DispatchSucceededFor(s) /\ LocatorMiss(s))
        => /\ poll[s].pc = "none"
           /\ requests[s].status = 0
           /\ Last(hs[s].shown).className = "error"

\* The state part of C9: the button is disabled exactly while a validated
\* submission is between its dispatch and the end of its run lookup, and a
\* flow that failed has shown its error message.
C9_Invariant ==
    /\ disabled <=> \E s \in Submissions : InFlight(s)
    /\ \A s \in Submissions :
          hs[s].pc = "failed"
          => Last(hs[s].shown) = Status(<<"Error: ">> \o hs[s].error, "error")

C10_ServerMessageVerbatim ==
    \A s \in Submissions :
        /\ DispatchFailedFor(s) =>
              LET reply == requests[s].dispatchReply[1]
              IN  (/\ reply.body.kind = "object"
                   /\ reply.body.hasMessage
                   /\ reply.body.message # <<>>)
                  => /\ hs[s].error = reply.body.message
                     /\ Last(hs[s].shown) =
                           Status(<<"Error: ">> \o reply.body.message, "error")
        /\ (/\ Len(requests[s].dispatchReply) = 1
            /\ requests[s].dispatchReply[1].status = 422
            /\ requests[s].dispatchReply[1].body = MessageBody(<<"Bad request">>))
           => hs[s].error = <<"Bad request">>

\* C10 happens: 422 {"message":"Bad request"} was received and reported
C10_Witness ==
    \E s \in Submissions :
        /\ requests[s].dispatchReply =
              << [status |-> 422, statusText |-> <<"Unprocessable Entity">>,
                  body |-> MessageBody(<<"Bad request">>)] >>
        /\ hs[s].error = <<"Bad request">>
        /\ statusMessage = Status(<<"Error: ", "Bad request">>, "error")


\* the dispatch of submission s was answered with a non-2xx response whose
\* body gives no message: it does not parse, or it parses to a JSON value
\* that has no message member, or an empty one
NoMessageReply(s) ==
    /\ DispatchFailedFor(s)
    /\ requests[s].dispatchReply[1].status # 0
    /\ LET body == requests[s].dispatchReply[1].body
       IN  ~(body.kind = "object" /\ body.hasMessage /\ body.message # <<>>)

\* C11: when the dispatch is answered with a non-2xx status and a body that
\* does not parse or has no message, the error that is reported contains the
\* numeric HTTP status (500 for a 500).
C11_StatusInError ==
    \A s \in Submissions :
        NoMessageReply(s)
        => LET reply == requests[s].dispatchReply[1]
           IN  /\ Includes(hs[s].error, ToString(reply.status))
               /\ Last(hs[s].shown) = Status(<<"Error: ">> \o hs[s].error, "error")


(***************************************************************************)
(* The classifier and the validator on their own: isValidUrl and           *)
(* getWorkflowType applied to every URL the user can type, as a text of    *)
(* at most MaxUrlLen tokens.                                               *)
(***************************************************************************)
MaxUrlLen == 4

\* the pieces a typed URL is made of: schemes, hosts in the case the code
\* looks for and in another case, the path separator and other text
UrlTokens ==
    {"https://", "www.", "youtube.com", "youtu.be", "tiktok.com", "YouTube.com",
     "/", "x"}

Urls == UNION { [1..n -> UrlTokens] : n \in 0..MaxUrlLen }

\* a form with every field filled in but the URL
TypedForm(url) ==
    [videoUrl |-> url, githubToken |-> <<"ghp_secret">>,
     downloadType |-> <<"video">>, repoOwner |-> <<"alice">>,
     repoName |-> <<"videos">>]

\* a freshly loaded page into which the user has typed a URL
UrlInit ==
    /\ localStorage = EmptyStore
    /\ \E url \in Urls : form = TypedForm(url)
    /\ disabled = FALSE
    /\ statusMessage = Status(<<>>, "none")
    /\ workflowLink = <<>>
    /\ hs = <<>>
    /\ poll = <<>>
    /\ requests = <<>>

\* triggerWorkflow, its first statement, on the typed URL whatever it is:
\* const workflowType = this.getWorkflowType(data.videoUrl)
Classify ==
    /\ hs = <<>>
    /\ hs' = <<[NewCall(form) EXCEPT
                   !.pc = "classified",
                   !.workflowType = getWorkflowType(form.videoUrl)]>>
    /\ poll' = <<NoPoll>>
    /\ requests' = <<NoRequests>>
    /\ UNCHANGED <<localStorage, form, disabled, statusMessage, workflowLink>>

\* the submit event on the typed form
SubmitTyped ==
    /\ hs = <<>>
    /\ handleSubmit(form)

UrlNext == Classify \/ SubmitTyped

UrlSpec == UrlInit /\ [][UrlNext]_vars

\* the text contains a YouTube host marker / the TikTok host marker, in the
\* letter case the code looks for
HasYoutubeMarker(url) == "youtube.com" \in Range(url) \/ "youtu.be" \in Range(url)

HasTiktokMarker(url) == "tiktok.com" \in Range(url)

\* C12: getWorkflowType returns 'download-youtube' for every URL that
\* contains 'youtube.com' or 'youtu.be', 'download-tiktok' for every URL that
\* contains 'tiktok.com', and 'download-video' for every other URL (a marker
\* in another letter case is no marker).
C12_ClassifierByMarker ==
    \A s \in Submissions :
        hs[s].pc = "classified"
        => LET url == hs[s].formData.videoUrl
               type == hs[s].workflowType
           IN  /\ HasYoutubeMarker(url) => type = "download-youtube"
               /\ HasTiktokMarker(url) => type = "download-tiktok"
               /\ (~HasYoutubeMarker(url) /\ ~HasTiktokMarker(url))
                     => type = "download-video"


\* C19: a submission whose URL isValidUrl accepted is dispatched with the
\* trigger of the pattern that accepted it ('download-tiktok' for the TikTok
\* pattern, 'download-youtube' for the YouTube pattern), whatever its path
\* contains, and never with the generic 'download-video'.
C19_TypeOfAcceptingPattern ==
    \A s \in Submissions :
        hs[s].pc = "dispatch"
        => LET url == hs[s].formData.videoUrl
               type == hs[s].workflowType
           IN  /\ tiktokRegex(url) => type = "download-tiktok"
               /\ youtubeRegex(url) => type = "download-youtube"
               /\ type # "download-video"


(***************************************************************************)
(* Properties of the persisted store.                                      *)
(***************************************************************************)

\* this step is a submit event whose form passed validation
ValidatedSubmitStep ==
    /\ Len(hs') = Len(hs) + 1
    /\ Last(hs').pc = "dispatch"

\* this step ends in a freshly loaded page
PageLoadStep == hs' = <<>>

\* C13: the stored owner and name are those of the most recent submission
\* that passed validation (each such submission overwrites both, no other
\* step writes the store, a reload leaves it as it is), and a page load
\* pre-fills the owner and name fields with the stored values.
C13_LastWriteWins ==
    [][ /\ ValidatedSubmitStep =>
              /\ getItem(localStorage', "repoOwner") = Last(hs').formData.repoOwner
              /\ getItem(localStorage', "repoName") = Last(hs').formData.repoName
        /\ ~ValidatedSubmitStep => localStorage' = localStorage
        /\ PageLoadStep =>
              /\ localStorage' = localStorage
              /\ form'.repoOwner = getItem(localStorage, "repoOwner")
              /\ form'.repoName = getItem(localStorage, "repoName") ]_vars

\* C13 happens: the page was loaded again after a submission of alice/videos
\* and shows these values with nothing typed
C13_Witness ==
    /\ hs = <<>>
    /\ form = [BlankForm EXCEPT !.repoOwner = <<"alice">>, !.repoName = <<"videos">>]
    /\ localStorage = [repoOwner |-> <<"alice">>, repoName |-> <<"videos">>]


\* C14: the persisted store never holds a key other than 'repoOwner' and
\* 'repoName', and none of its values is the credential, the video URL or
\* the output mode of a submission.
C14_StoreHoldsOwnerAndNameOnly ==
    /\ DOMAIN localStorage \subseteq {"repoOwner", "repoName"}
    /\ \A k \in DOMAIN localStorage : \A s \in Submissions :
          LET data == hs[s].formData
          IN  localStorage[k] \notin
                 {data.githubToken, data.videoUrl, data.downloadType}

\* C14 happens: a submission with a credential went through dispatch, run
\* lookup and polling, and the store holds the two keys
C14_Witness ==
    \E s \in Submissions :
        /\ hs[s].formData.githubToken = <<"ghp_secret">>
        /\ poll[s].pc = "ended"
        /\ poll[s].outcome = "success"
        /\ DOMAIN localStorage = {"repoOwner", "repoName"}


(***************************************************************************)
(* Properties of the run lookup.                                           *)
(***************************************************************************)

\* the run listing of submission s was answered 2xx with a list of runs
ListingOf(s) ==
    IF /\ Len(requests[s].runsReply) = 1
       /\ requests[s].runsReply[1].status \in 200..299
       /\ requests[s].runsReply[1].kind = "object"
       /\ requests[s].runsReply[1].hasRuns
    THEN <<requests[s].runsReply[1].runs>>
    ELSE <<>>

\* C15: the run lookup is best-effort: it takes the first run of the
\* listing, whichever run that is, and the poll loop follows that run; so
\* when the new run is not listed yet, a run from before the dispatch is
\* polled and its conclusion is what the page reports (C15_Witness).
C15_LookupTakesFirstListedRun ==
    \A s \in Submissions :
        (ListingOf(s) # <<>> /\ ListingOf(s)[1] # <<>>)
        => LET first == ListingOf(s)[1][1]
           IN  /\ hs[s].pc = "done"
               /\ hs[s].runId = first
               /\ poll[s].runId = first
               /\ poll[s].pc # "none"
               /\ Last(hs[s].shown) =
                     Status(<<"Workflow triggered successfully! Run ID: ",
                              ToString(first)>>, "success")

\* C15 happens: the listing held only a run from before the dispatch, that
\* run was polled, and the page reports its success
C15_Witness ==
    \E s \in Submissions :
        /\ ListingOf(s) = << <<PriorRun>> >>
        /\ NewRun(s) # PriorRun
        /\ hs[s].runId = PriorRun
        /\ poll[s].runId = PriorRun
        /\ poll[s].outcome = "success"
        /\ statusMessage = SuccessText


(***************************************************************************)
(* Properties of the ticks of a poll loop, counted from what the loop has  *)
(* issued and what has completed.                                          *)
(***************************************************************************)

\* status fetches of submission s that were issued and have not settled
FetchesInFlight(s) == requests[s].status - Len(poll[s].seen)

\* setTimeout(poll, 10000) calls of the loop: one with each progress text
TimersSet(s) ==
    Cardinality({i \in 1..Len(poll[s].log) : poll[s].log[i].className = "info"})

\* runs of poll() that a timer started: all but the first
TimersFired(s) == IF poll[s].attempts = 0 THEN 0 ELSE poll[s].attempts - 1

TimersPending(s) == TimersSet(s) - TimersFired(s)

\* C16: every submission has at most one poll loop, started when its run
\* lookup is over, and the loop has at most one tick pending at any time,
\* a timer or a status fetch in flight: a timer is set only by a tick whose
\* fetch has completed, and at most one per tick.
C16_OneTickPending ==
    \A s \in Submissions :
        /\ FetchesInFlight(s) \in {0, 1}
        /\ TimersPending(s) \in {0, 1}
        /\ FetchesInFlight(s) + TimersPending(s) <= 1
        /\ TickPending(s) <=> FetchesInFlight(s) + TimersPending(s) = 1
        /\ TimersSet(s) <= Len(poll[s].seen)
        /\ poll[s].pc # "none" => (hs[s].pc = "done" /\ poll[s].runId = hs[s].runId)

\* C16 happens: the 29th tick of a loop has completed its fetch and set the
\* one timer that is pending
C16_Witness ==
    \E s \in Submissions :
        /\ poll[s].attempts = 29
        /\ Len(poll[s].seen) = 29
        /\ TimersPending(s) = 1
        /\ FetchesInFlight(s) = 0


(***************************************************************************)
(* Two submissions on one load of the page: the second submit event comes  *)
(* while the first submission's poll loop may still be ticking.            *)
(***************************************************************************)
Pair == {1, 2}

SubmitAgain ==
    /\ Len(hs) < Cardinality(Pair)
    /\ \E fd \in FormInputs : handleSubmit(fd)

PairNext ==
    \/ Reload
    \/ SubmitAgain
    \/ \E s \in Pair : \E response \in DispatchResponses : DispatchResponse(s, response)
    \/ \E s \in Pair : DispatchRejected(s)
    \/ \E s \in Pair : DelayElapsed(s)
    \/ \E s \in Pair : \E response \in RunsResponses(s) : RunsResponse(s, response)
    \/ \E s \in Pair : RunsRejected(s)
    \/ \E s \in Pair : \E response \in StatusResponses : StatusResponse(s, response)
    \/ \E s \in Pair : StatusRejected(s)
    \/ \E s \in Pair : PollTimer(s)

PairSpec == Init /\ [][PairNext]_vars

\* C17: polling does not hold the submit button: whenever no handleSubmit
\* is between its dispatch and the end of its run lookup the button is
\* enabled, also with poll loops ticking; and every report of every poll
\* loop is written to the one status text, whether or not a newer submission
\* has written to it since.
C17_PollingNotGuarded ==
    /\ [](\A s \in Submissions :
             (TickPending(s) /\ ~(\E t \in Submissions : InFlight(t))) => ~disabled)
    /\ [][\A s \in Submissions :
             (s \in 1..Len(poll') /\ s \in 1..Len(poll) /\ Len(poll'[s].log) > Len(poll[s].log))
             => statusMessage' = Last(poll'[s].log)]_vars

\* C17 happens: the loops of two submissions are both ticking, and the
\* status text is the third progress report of the older one, written over
\* what the newer submission had shown
C17_Witness ==
    /\ Len(hs) = 2
    /\ TickPending(1)
    /\ TickPending(2)
    /\ poll[2].log = <<>>
    /\ Len(hs[2].shown) = 2
    /\ poll[1].attempts = 3
    /\ statusMessage = ProgressText(3)
    /\ statusMessage # Last(hs[2].shown)


\* C18: once the dispatch has succeeded, whatever the outcome of the listing
\* request (2xx with runs, 2xx with none, non-2xx, network failure, a body
\* without workflow_runs), the run lookup returns a run id or null, and the
\* submission is not reported as failed.
C18_LookupAlwaysReturns ==
    \A s \in Submissions :
        (DispatchSucceededFor(s) /\ Len(requests[s].runsReply) = 1)
        => /\ hs[s].pc = "done"
           /\ hs[s].runId \in {null, PriorRun, NewRun(s)}
           /\ hs[s].error = <<>>
           /\ Last(hs[s].shown).className # "error"


(***************************************************************************)
(* Properties of the last tick of a poll loop.                             *)
(***************************************************************************)
FailedRun == [status |-> "completed", conclusion |-> "failure"]

\* C20: a loop whose 30th status fetch returns conclusion success (failure)
\* reports success (failure) and not the timeout; the timeout is reported
\* only on the 30th tick and only for a run without such a conclusion; and
\* no loop reports both a conclusion and the timeout.
C20_ConclusionBeforeTimeout ==
    \A s \in Submissions :
        LET seen == poll[s].seen
            log == poll[s].log
        IN  /\ (Len(seen) = 30 /\ Last(seen).conclusion = "success")
                  => /\ poll[s].outcome = "success"
                     /\ Last(log) = SuccessText
                     /\ TimeoutText \notin Range(log)
            /\ (Len(seen) = 30 /\ Last(seen).conclusion = "failure")
                  => /\ poll[s].outcome = "failure"
                     /\ Last(log) = FailureText
                     /\ TimeoutText \notin Range(log)
            /\ TimeoutText \in Range(log)
                  => /\ Len(seen) = 30
                     /\ poll[s].attempts = 30
                     /\ Last(seen).conclusion \notin {"success", "failure"}
                     /\ SuccessText \notin Range(log)
                     /\ FailureText \notin Range(log)

\* C20 happens: the 30th fetch of a loop returned a failed run, and the page
\* reports the failure
C20_Witness ==
    \E s \in Submissions :
        /\ Len(poll[s].seen) = 30
        /\ poll[s].attempts = 30
        /\ Last(poll[s].seen) = FailedRun
        /\ poll[s].outcome = "failure"
        /\ statusMessage = FailureText

=============================================================================
